---- MODULE Spec2Model ----
(***************************************************************************)
(* Model of the epistery white-list agent: the delegation-token            *)
(* verification (verifyDelegationToken), the HTTP handlers of the two      *)
(* server implementations (class WhiteListAgent, function                  *)
(* createWhiteListAgent), token issuance (POST /delegate) and the part of  *)
(* the browser client that turns a /check response into an access result.  *)
(*                                                                         *)
(* JavaScript values are tagged records, so that the code's coercions      *)
(* (truthiness, ToNumber, strict equality, JSON round trips) are computed  *)
(* the way the runtime computes them.  Strings are TLA+ strings; their     *)
(* characters are read with Len and SubSeq.                                *)
(*                                                                         *)
(* Assumptions about the host, which is outside the repository:            *)
(*   - a body parser is mounted, so req.body is an object on POST;         *)
(*   - the membership service (epistery.isWhitelisted, getWhitelist,       *)
(*     addToWhitelist, removeFromWhitelist) keeps a set of addresses and   *)
(*     a failing call throws without changing that set;                    *)
(*   - one request is handled at a time (a handler is one step);           *)
(*   - the on-chain delegation set (the Merkle tree of the README) keeps   *)
(*     the committed (subject, audience) pairs; pairs are committed and    *)
(*     removed there, not by the code of this repository.                  *)
(***************************************************************************)
EXTENDS Integers, Sequences, FiniteSets, TLC

VARIABLES
  whitelist,          \* the membership list kept by the epistery service
  appLocalsEpistery,  \* req.app.locals.epistery is set (by the host)
  thisEpistery,       \* WhiteListAgent.epistery is set (not null)
  clock,              \* [days, secs]: the time since EpochStart
  nonces,             \* number of crypto.randomUUID() values drawn so far
  held,               \* the token the visitor's browser holds, or Null
  conn,               \* the request being answered and its answer, or Idle
  previous,           \* the verification attempt a repeated request follows, or Null
  chain,              \* [committed, revoked]: the (subject, audience) pairs on-chain
  page,               \* the run of the client script in the visitor's browser
  flights             \* the requests WhiteListAgent is handling concurrently

vars == <<whitelist, appLocalsEpistery, thisEpistery, clock, nonces, held, conn,
          previous, chain, page, flights>>

----------------------------------------------------------------------------
(* Bounds of the model *)

MaxDays == 1
MaxSecs == 1
MaxNonces == 1
MaxFlights == 2
MaxChecks == 2
EpochStart == 1000

----------------------------------------------------------------------------
(* JavaScript values *)

Undef == [t |-> "undefined"]
Null == [t |-> "null"]
NaN == [t |-> "NaN"]
Num(n) == [t |-> "number", n |-> n]
Str(s) == [t |-> "string", s |-> s]
Arr(q) == [t |-> "array", a |-> q]

\* a string that is the JSON text of value v (see JSONstringify)
JsonText(v) == [t |-> "string", json |-> v]

IsString(v) == v.t = "string"

\* ToBoolean
Truthy(v) ==
  CASE v.t = "undefined" -> FALSE
    [] v.t = "null" -> FALSE
    [] v.t = "NaN" -> FALSE
    [] v.t = "number" -> v.n # 0
    [] v.t = "string" -> IF "s" \in DOMAIN v THEN v.s # "" ELSE TRUE
    [] OTHER -> TRUE

Digits == <<"0", "1", "2", "3", "4", "5", "6", "7", "8", "9">>

DigitValue(c) == (CHOOSE i \in 1..10 : Digits[i] = c) - 1

IsDecimal(s) ==
  /\ Len(s) > 0
  /\ \A i \in 1..Len(s) : \E k \in 1..10 : Digits[k] = SubSeq(s, i, i)

RECURSIVE Decimal(_)
Decimal(s) ==
  IF Len(s) = 0 THEN 0
  ELSE 10 * Decimal(SubSeq(s, 1, Len(s) - 1)) + DigitValue(SubSeq(s, Len(s), Len(s)))

\* the numeric value of a string: decimal digits with an optional minus sign
StringToNumber(s) ==
  IF s = "" THEN Num(0)
  ELSE IF IsDecimal(s) THEN Num(Decimal(s))
  ELSE IF Len(s) > 1 /\ SubSeq(s, 1, 1) = "-" /\ IsDecimal(SubSeq(s, 2, Len(s)))
       THEN Num(0 - Decimal(SubSeq(s, 2, Len(s))))
  ELSE NaN

\* ToNumber
ToNumber(v) ==
  CASE v.t = "number" -> v
    [] v.t = "undefined" -> NaN
    [] v.t = "null" -> Num(0)
    [] v.t = "NaN" -> NaN
    [] v.t = "string" -> IF "s" \in DOMAIN v THEN StringToNumber(v.s) ELSE NaN
    [] v.t = "array" ->
         IF Len(v.a) = 0 THEN Num(0)
         ELSE IF Len(v.a) = 1 THEN StringToNumber(v.a[1])
         ELSE NaN
    [] OTHER -> NaN

\* a > b, operands converted with ToNumber (a is a number at every use)
JsGreater(a, b) ==
  LET x == ToNumber(a)
      y == ToNumber(b)
  IN  x.t = "number" /\ y.t = "number" /\ x.n > y.n

\* a * b
JsTimes(a, b) ==
  LET x == ToNumber(a)
      y == ToNumber(b)
  IN  IF x.t = "number" /\ y.t = "number" THEN Num(x.n * y.n) ELSE NaN

\* a + b for a number a and a number or NaN b
JsPlus(a, b) ==
  IF a.t = "number" /\ b.t = "number" THEN Num(a.n + b.n) ELSE NaN

UpperCaseLetters == "ABCDEFGHIJKLMNOPQRSTUVWXYZ"
LowerCaseLetters == "abcdefghijklmnopqrstuvwxyz"

LowerCaseChar(c) ==
  LET at == {i \in 1..Len(UpperCaseLetters) : SubSeq(UpperCaseLetters, i, i) = c}
  IN  IF at = {} THEN c
      ELSE SubSeq(LowerCaseLetters, CHOOSE i \in at : TRUE, CHOOSE i \in at : TRUE)

\* String.prototype.toLowerCase
RECURSIVE ToLowerCase(_)
ToLowerCase(s) ==
  IF Len(s) = 0 THEN ""
  ELSE LowerCaseChar(SubSeq(s, 1, 1)) \o ToLowerCase(SubSeq(s, 2, Len(s)))

\* a variant that compares strings without regard to letter case
NotEqualIgnoringCase(a, b) ==
  IF a.t = "string" /\ b.t = "string" /\ "s" \in DOMAIN a /\ "s" \in DOMAIN b
  THEN ToLowerCase(a.s) # ToLowerCase(b.s)
  ELSE a # b \/ a.t \in {"NaN", "array", "object"}

\* a variant that lets a domain stand for its subdomains: a string a matches
\* every b that ends in "." and a
NotEqualUnlessParentDomain(a, b) ==
  IF a.t = "string" /\ b.t = "string" /\ "s" \in DOMAIN a /\ "s" \in DOMAIN b
  THEN /\ a.s # b.s
       /\ ~(/\ Len(b.s) > Len(a.s) + 1
            /\ SubSeq(b.s, Len(b.s) - Len(a.s), Len(b.s)) = "." \o a.s)
  ELSE a # b \/ a.t \in {"NaN", "array", "object"}

\* a !== b for the primitives and parsed JSON values compared in the code
StrictNotEqual(a, b) ==
  \/ a # b
  \/ a.t \in {"NaN", "array", "object"}

\* v.k (undefined for a missing property and for a property of a primitive)
Prop(v, k) == IF v.t = "object" /\ k \in DOMAIN v THEN v[k] ELSE Undef

\* reading a property of v throws a TypeError
Nullish(v) == v.t \in {"undefined", "null"}

\* String.prototype.includes
StringIncludes(hay, needle) ==
  \E i \in 1..(Len(hay) - Len(needle) + 1) :
    SubSeq(hay, i, i + Len(needle) - 1) = needle

\* Array.prototype.includes
ArrayIncludes(q, x) == \E i \in 1..Len(q) : q[i] = x

\* JSON.stringify, then JSON.parse: NaN becomes null, and a property whose
\* value is undefined is dropped (it reads as undefined again)
RECURSIVE JsonValue(_)
JsonValue(v) ==
  CASE v.t = "NaN" -> Null
    [] v.t = "object" -> [k \in DOMAIN v |-> IF k = "t" THEN "object" ELSE JsonValue(v[k])]
    [] OTHER -> v

JSONstringify(v) == JsonText(JsonValue(v))

\* JSON.parse: [ok, value] or [ok, message] when it throws a SyntaxError
JSONparse(text) ==
  IF "json" \in DOMAIN text
  THEN [ok |-> TRUE, value |-> text.json]
  ELSE [ok |-> FALSE, message |-> "Unexpected token"]

\* crypto.createHash('sha256').update(s).digest('hex'): a non-empty string
\* determined by s, different for different s
Sha256Hex(s) == [t |-> "string", sha256 |-> s]

----------------------------------------------------------------------------
(* The clock *)

\* The code counts time in milliseconds.  Thirty days of milliseconds exceed
\* the 32-bit integers of TLC, so the model counts seconds: every time in it
\* (Date.now(), expires, createdAt) is the code's value divided by 1000, and
\* a day is 24 * 60 * 60 of them where the code has 24 * 60 * 60 * 1000.
Day == 24 * 60 * 60

\* Date.now()
DateNow == EpochStart + clock.days * Day + clock.secs

----------------------------------------------------------------------------
(* Requests and responses *)

\* a request: every handler reads only the parts it needs
Request(header, cookie, hostname, host, body, session) ==
  [header |-> header, cookie |-> cookie, hostname |-> hostname, host |-> host,
   body |-> body, session |-> session]

Response(status, body) == [status |-> status, body |-> body]

\* what a handler did: the verification result (Undef when the handler does
\* not verify), the membership calls it made, its response, the list after it
Outcome(verification, calls, resp, wl) ==
  [verification |-> verification, calls |-> calls, resp |-> resp, wl |-> wl]

----------------------------------------------------------------------------
(* The membership service (epistery) *)

ServiceError == "membership service unavailable"

IsWhitelisted(wl, address) ==
  /\ IsString(address)
  /\ "s" \in DOMAIN address
  /\ address.s \in wl

GetWhitelist(wl) == wl

AddToWhitelist(wl, address) == wl \cup {address}

RemoveFromWhitelist(wl, address) == wl \ {address}

----------------------------------------------------------------------------
(* verifyDelegationToken: the same code in both server implementations *)

Invalid(error) == [valid |-> FALSE, error |-> error]

VerificationFailed(message) == Invalid("Token verification failed: " \o message)

\* delegationHeader || delegationCookie
\* a variant that prefers the cookie to the header
TokenDataCookieFirst(req) == IF Truthy(req.cookie) THEN req.cookie ELSE req.header

TokenData(req) == IF Truthy(req.header) THEN req.header ELSE req.cookie

\* the part of s before its first ':'  (s.split(':')[0])
BeforeColon(s) ==
  LET colons == {i \in 1..Len(s) : SubSeq(s, i, i) = ":"}
  IN  IF colons = {} THEN s
      ELSE SubSeq(s, 1, (CHOOSE i \in colons : \A j \in colons : i <= j) - 1)

\* req.hostname || req.get('host')?.split(':')[0]
RequestDomain(req) ==
  IF Truthy(req.hostname) THEN req.hostname
  ELSE IF Nullish(req.host) THEN Undef
  ELSE Str(BeforeColon(req.host.s))

\* a variant that reads the expiry as "now >= expires"
CheckDelegationExpiresAtNow(delegation, signature, req, now) ==
  IF ~JsGreater(Prop(delegation, "expires"), Num(now))
       /\ ToNumber(Prop(delegation, "expires")).t = "number"
    THEN Invalid("Token expired")
  ELSE IF StrictNotEqual(Prop(delegation, "audience"), RequestDomain(req))
    THEN Invalid("Token audience mismatch")
  ELSE IF ~Truthy(Prop(delegation, "subject")) \/ ~Truthy(signature)
    THEN Invalid("Invalid token structure")
  ELSE [valid |-> TRUE,
        rivetAddress |-> Prop(delegation, "subject"),
        domain |-> Prop(delegation, "audience"),
        scope |-> Prop(delegation, "scope")]

\* a variant that checks the audience before the expiry
CheckDelegationAudienceFirst(delegation, signature, req, now) ==
  IF StrictNotEqual(Prop(delegation, "audience"), RequestDomain(req))
    THEN Invalid("Token audience mismatch")
  ELSE IF JsGreater(Num(now), Prop(delegation, "expires"))
    THEN Invalid("Token expired")
  ELSE IF ~Truthy(Prop(delegation, "subject")) \/ ~Truthy(signature)
    THEN Invalid("Invalid token structure")
  ELSE [valid |-> TRUE,
        rivetAddress |-> Prop(delegation, "subject"),
        domain |-> Prop(delegation, "audience"),
        scope |-> Prop(delegation, "scope")]

\* a variant that checks the structure before the expiry and the audience
CheckDelegationStructureFirst(delegation, signature, req, now) ==
  IF ~Truthy(Prop(delegation, "subject")) \/ ~Truthy(signature)
    THEN Invalid("Invalid token structure")
  ELSE IF JsGreater(Num(now), Prop(delegation, "expires"))
    THEN Invalid("Token expired")
  ELSE IF StrictNotEqual(Prop(delegation, "audience"), RequestDomain(req))
    THEN Invalid("Token audience mismatch")
  ELSE [valid |-> TRUE,
        rivetAddress |-> Prop(delegation, "subject"),
        domain |-> Prop(delegation, "audience"),
        scope |-> Prop(delegation, "scope")]

\* a variant that accepts a delegation once: it rejects every token while
\* the last answered request presented a valid one
CheckDelegationOnce(delegation, signature, req, now) ==
  IF /\ conn.state = "answered"
     /\ "valid" \in DOMAIN conn.verification
     /\ conn.verification.valid
    THEN Invalid("Token already used")
  ELSE IF JsGreater(Num(now), Prop(delegation, "expires"))
    THEN Invalid("Token expired")
  ELSE IF StrictNotEqual(Prop(delegation, "audience"), RequestDomain(req))
    THEN Invalid("Token audience mismatch")
  ELSE IF ~Truthy(Prop(delegation, "subject")) \/ ~Truthy(signature)
    THEN Invalid("Invalid token structure")
  ELSE [valid |-> TRUE,
        rivetAddress |-> Prop(delegation, "subject"),
        domain |-> Prop(delegation, "audience"),
        scope |-> Prop(delegation, "scope")]

\* the checks made on a decoded token: 1. expiration, 2. audience,
\* 3. signature (the structure of the token; the signature is not verified),
\* 4. Merkle proof (not implemented)
CheckDelegation(delegation, signature, req, now) ==
  IF JsGreater(Num(now), Prop(delegation, "expires"))
    THEN Invalid("Token expired")
  ELSE IF StrictNotEqual(Prop(delegation, "audience"), RequestDomain(req))
    THEN Invalid("Token audience mismatch")
  ELSE IF ~Truthy(Prop(delegation, "subject")) \/ ~Truthy(signature)
    THEN Invalid("Invalid token structure")
  ELSE [valid |-> TRUE,
        rivetAddress |-> Prop(delegation, "subject"),
        domain |-> Prop(delegation, "audience"),
        scope |-> Prop(delegation, "scope")]

\* a variant that keeps its result in a field of the agent: a request that
\* is still waiting after its verification leaves its result there, and the
\* next verification returns it
VerifyDelegationTokenShared(req, now) ==
  LET waiting == {i \in 1..MaxFlights : flights[i].pc = "verified"}
      tokenData == TokenData(req)
      parsed == IF IsString(tokenData) THEN JSONparse(tokenData)
                ELSE [ok |-> TRUE, value |-> tokenData]
      token == parsed.value
      delegation == Prop(token, "delegation")
      signature == Prop(token, "signature")
  IN  IF waiting # {} THEN flights[CHOOSE i \in waiting : TRUE].verification
      ELSE IF ~Truthy(tokenData) THEN Invalid("No delegation token provided")
      ELSE IF ~parsed.ok THEN VerificationFailed(parsed.message)
      ELSE IF Nullish(token)
        THEN VerificationFailed("Cannot destructure property 'delegation'")
      ELSE IF Nullish(delegation)
        THEN VerificationFailed("Cannot read properties of undefined (reading 'expires')")
      ELSE CheckDelegation(delegation, signature, req, now)

VerifyDelegationToken(req, now) ==
  LET tokenData == TokenData(req)
      parsed == IF IsString(tokenData) THEN JSONparse(tokenData)
                ELSE [ok |-> TRUE, value |-> tokenData]
      token == parsed.value
      delegation == Prop(token, "delegation")
      signature == Prop(token, "signature")
  IN  IF ~Truthy(tokenData) THEN Invalid("No delegation token provided")
      ELSE IF ~parsed.ok THEN VerificationFailed(parsed.message)
      ELSE IF Nullish(token)
        THEN VerificationFailed("Cannot destructure property 'delegation'")
      ELSE IF Nullish(delegation)
        THEN VerificationFailed("Cannot read properties of undefined (reading 'expires')")
      ELSE CheckDelegation(delegation, signature, req, now)

----------------------------------------------------------------------------
(* Checks shared by the admin handlers *)

AdminScope == "whitelist:admin"

\* verification.scope?.includes('whitelist:admin'): "yes", "no", or "throws"
\* when scope is neither nullish nor a string nor an array
ScopeIncludesAdmin(scope) ==
  CASE Nullish(scope) -> "no"
    [] scope.t = "string" ->
         IF "s" \in DOMAIN scope /\ StringIncludes(scope.s, AdminScope) THEN "yes" ELSE "no"
    [] scope.t = "array" -> IF ArrayIncludes(scope.a, AdminScope) THEN "yes" ELSE "no"
    [] OTHER -> "throws"

InsufficientPermissions == "Insufficient permissions - requires whitelist:admin scope"

NotAFunction == "verification.scope?.includes is not a function"

AddressHexDigits == 40

HexDigits ==
  {"0", "1", "2", "3", "4", "5", "6", "7", "8", "9",
   "a", "b", "c", "d", "e", "f", "A", "B", "C", "D", "E", "F"}

\* /^0x[a-fA-F0-9]{40}$/.test(s)
MatchesAddress(s) ==
  /\ Len(s) = 2 + AddressHexDigits
  /\ SubSeq(s, 1, 2) = "0x"
  /\ \A i \in 3..Len(s) : SubSeq(s, i, i) \in HexDigits

\* !address || !/^0x[a-fA-F0-9]{40}$/.test(address)
InvalidAddress(address) ==
  \/ ~Truthy(address)
  \/ ~(IsString(address) /\ "s" \in DOMAIN address /\ MatchesAddress(address.s))

----------------------------------------------------------------------------
(* class WhiteListAgent: the handlers attached by attach(router).           *)
(* epi: this.epistery is set; serviceOk: the membership call, if one is     *)
(* made, returns rather than throws.                                        *)

NotInitialized == "Epistery not initialized"

\* router.use: store the epistery instance from app.locals if available
AttachMiddleware(epi, appLocals) == epi \/ appLocals

AgentCheck(req, now, epi, wl, serviceOk) ==
  LET v == VerifyDelegationToken(req, now)
  IN  IF ~v.valid
        THEN Outcome(v, <<>>, Response(401, [allowed |-> FALSE, error |-> v.error]), wl)
      ELSE IF ~epi
        THEN Outcome(v, <<>>, Response(500, [allowed |-> FALSE, error |-> NotInitialized]), wl)
      ELSE IF ~serviceOk
        THEN Outcome(v, <<"isWhitelisted">>,
                     Response(500, [allowed |-> FALSE, error |-> ServiceError]), wl)
      ELSE Outcome(v, <<"isWhitelisted">>,
                   Response(200, [allowed |-> IsWhitelisted(wl, v.rivetAddress),
                                  address |-> v.rivetAddress,
                                  domain |-> v.domain]), wl)

AgentList(req, now, epi, wl, serviceOk) ==
  LET v == VerifyDelegationToken(req, now)
      admin == ScopeIncludesAdmin(v.scope)
  IN  IF ~v.valid
        THEN Outcome(v, <<>>, Response(401, [error |-> v.error]), wl)
      ELSE IF admin = "throws"
        THEN Outcome(v, <<>>, Response(500, [error |-> NotAFunction]), wl)
      ELSE IF admin = "no"
        THEN Outcome(v, <<>>, Response(403, [error |-> InsufficientPermissions]), wl)
      ELSE IF ~epi
        THEN Outcome(v, <<>>, Response(500, [error |-> NotInitialized]), wl)
      ELSE IF ~serviceOk
        THEN Outcome(v, <<"getWhitelist">>, Response(500, [error |-> ServiceError]), wl)
      ELSE Outcome(v, <<"getWhitelist">>,
                   Response(200, [whitelist |-> GetWhitelist(wl),
                                  count |-> Cardinality(GetWhitelist(wl))]), wl)

\* the part POST /add and POST /remove have in common, up to the service call
AgentChange(req, now, epi, wl, serviceOk, call, changed) ==
  LET v == VerifyDelegationToken(req, now)
      admin == ScopeIncludesAdmin(v.scope)
      address == Prop(req.body, "address")
      Failure(status, error) == Response(status, [success |-> FALSE, error |-> error])
  IN  IF ~v.valid
        THEN Outcome(v, <<>>, Failure(401, v.error), wl)
      ELSE IF admin = "throws"
        THEN Outcome(v, <<>>, Failure(500, NotAFunction), wl)
      ELSE IF admin = "no"
        THEN Outcome(v, <<>>, Failure(403, InsufficientPermissions), wl)
      ELSE IF InvalidAddress(address)
        THEN Outcome(v, <<>>, Failure(400, "Invalid Ethereum address"), wl)
      ELSE IF ~epi
        THEN Outcome(v, <<>>, Failure(500, NotInitialized), wl)
      ELSE IF ~serviceOk
        THEN Outcome(v, <<call>>, Failure(500, ServiceError), wl)
      ELSE Outcome(v, <<call>>,
                   Response(200, [success |-> TRUE, address |-> address]), changed)

AgentAdd(req, now, epi, wl, serviceOk) ==
  AgentChange(req, now, epi, wl, serviceOk, "addToWhitelist",
              AddToWhitelist(wl, Prop(req.body, "address").s))

AgentRemove(req, now, epi, wl, serviceOk) ==
  AgentChange(req, now, epi, wl, serviceOk, "removeFromWhitelist",
              RemoveFromWhitelist(wl, Prop(req.body, "address").s))

StatusBody(count) ==
  [agent |-> "white-list", version |-> "0.1.0", whitelistCount |-> count,
   delegationSupported |-> TRUE, merkleTreeEnabled |-> FALSE]

\* the agent's status body also carries the configuration it was built with
AgentConfig == [t |-> "object"]

AgentStatusBody(count) ==
  [agent |-> "white-list", version |-> "0.1.0", whitelistCount |-> count,
   delegationSupported |-> TRUE, merkleTreeEnabled |-> FALSE, config |-> AgentConfig]

AgentStatus(epi, wl, serviceOk) ==
  IF ~epi THEN Outcome(Undef, <<>>, Response(200, AgentStatusBody(0)), wl)
  ELSE IF ~serviceOk
    THEN Outcome(Undef, <<"getWhitelist">>, Response(200, AgentStatusBody(0)), wl)
  ELSE Outcome(Undef, <<"getWhitelist">>,
               Response(200, AgentStatusBody(Cardinality(GetWhitelist(wl)))), wl)

----------------------------------------------------------------------------
(* function createWhiteListAgent(epistery): its handlers *)

\* a variant that answers a verified non-member with 401
RouterCheckDeniesNonMember(req, now, wl, serviceOk) ==
  LET v == VerifyDelegationToken(req, now)
  IN  IF ~v.valid
        THEN Outcome(v, <<>>, Response(401, [allowed |-> FALSE, error |-> v.error]), wl)
      ELSE IF ~serviceOk
        THEN Outcome(v, <<"isWhitelisted">>,
                     Response(500, [allowed |-> FALSE, error |-> ServiceError]), wl)
      ELSE IF ~IsWhitelisted(wl, v.rivetAddress)
        THEN Outcome(v, <<"isWhitelisted">>,
                     Response(401, [allowed |-> FALSE, error |-> "Not whitelisted"]), wl)
      ELSE Outcome(v, <<"isWhitelisted">>,
                   Response(200, [allowed |-> TRUE,
                                  address |-> v.rivetAddress,
                                  domain |-> v.domain]), wl)

RouterCheck(req, now, wl, serviceOk) ==
  LET v == VerifyDelegationToken(req, now)
  IN  IF ~v.valid
        THEN Outcome(v, <<>>, Response(401, [allowed |-> FALSE, error |-> v.error]), wl)
      ELSE IF ~serviceOk
        THEN Outcome(v, <<"isWhitelisted">>,
                     Response(500, [allowed |-> FALSE, error |-> ServiceError]), wl)
      ELSE Outcome(v, <<"isWhitelisted">>,
                   Response(200, [allowed |-> IsWhitelisted(wl, v.rivetAddress),
                                  address |-> v.rivetAddress,
                                  domain |-> v.domain]), wl)

\* a variant that reads the list before it checks the scope
RouterListLooksUpFirst(req, now, wl, serviceOk) ==
  LET v == VerifyDelegationToken(req, now)
      admin == ScopeIncludesAdmin(v.scope)
  IN  IF ~v.valid
        THEN Outcome(v, <<>>, Response(401, [error |-> v.error]), wl)
      ELSE IF ~serviceOk
        THEN Outcome(v, <<"getWhitelist">>, Response(500, [error |-> ServiceError]), wl)
      ELSE IF admin = "throws"
        THEN Outcome(v, <<"getWhitelist">>, Response(500, [error |-> NotAFunction]), wl)
      ELSE IF admin = "no"
        THEN Outcome(v, <<"getWhitelist">>,
                     Response(403, [error |-> InsufficientPermissions]), wl)
      ELSE Outcome(v, <<"getWhitelist">>,
                   Response(200, [whitelist |-> GetWhitelist(wl),
                                  count |-> Cardinality(GetWhitelist(wl))]), wl)

RouterList(req, now, wl, serviceOk) ==
  LET v == VerifyDelegationToken(req, now)
      admin == ScopeIncludesAdmin(v.scope)
  IN  IF ~v.valid
        THEN Outcome(v, <<>>, Response(401, [error |-> v.error]), wl)
      ELSE IF admin = "throws"
        THEN Outcome(v, <<>>, Response(500, [error |-> NotAFunction]), wl)
      ELSE IF admin = "no"
        THEN Outcome(v, <<>>, Response(403, [error |-> InsufficientPermissions]), wl)
      ELSE IF ~serviceOk
        THEN Outcome(v, <<"getWhitelist">>, Response(500, [error |-> ServiceError]), wl)
      ELSE Outcome(v, <<"getWhitelist">>,
                   Response(200, [whitelist |-> GetWhitelist(wl),
                                  count |-> Cardinality(GetWhitelist(wl))]), wl)

RouterStatus(wl, serviceOk) ==
  IF ~serviceOk
    THEN Outcome(Undef, <<"getWhitelist">>, Response(500, [error |-> ServiceError]), wl)
  ELSE Outcome(Undef, <<"getWhitelist">>,
               Response(200, StatusBody(Cardinality(GetWhitelist(wl)))), wl)

DefaultDurationDays == 30

DefaultScope == Arr(<<"whitelist:read">>)

\* crypto.randomUUID(): the n-th value drawn differs from all earlier ones
RandomUUID(n) == [t |-> "string", uuid |-> n]

\* req.session?.rivetAddress || req.body.rivetAddress
DelegateRivetAddress(req) ==
  IF ~Nullish(req.session) /\ Truthy(Prop(req.session, "rivetAddress"))
  THEN Prop(req.session, "rivetAddress")
  ELSE Prop(req.body, "rivetAddress")

\* the delegation object; now2 is the second reading of Date.now()
Delegation(req, now, now2, uuid) ==
  LET given == Prop(req.body, "durationDays")
      durationDays == IF given.t = "undefined" THEN Num(DefaultDurationDays) ELSE given
      scope == Prop(req.body, "scope")
  IN  [t |-> "object",
       issuer |-> req.hostname,
       subject |-> DelegateRivetAddress(req),
       audience |-> Prop(req.body, "domain"),
       scope |-> IF Truthy(scope) THEN scope ELSE DefaultScope,
       expires |-> JsPlus(Num(now), JsTimes(durationDays, Num(Day))),
       nonce |-> RandomUUID(uuid),
       createdAt |-> Num(now2)]

\* the token: the delegation and the placeholder signature over its JSON text
DelegationToken(delegation) ==
  [t |-> "object",
   delegation |-> delegation,
   signature |-> Sha256Hex(JSONstringify(delegation))]

RouterDelegate(req, now, now2, uuid, wl) ==
  IF ~Truthy(Prop(req.body, "domain"))
    THEN Outcome(Undef, <<>>, Response(400, [error |-> "Domain is required"]), wl)
  ELSE IF ~Truthy(DelegateRivetAddress(req))
    THEN Outcome(Undef, <<>>,
                 Response(401, [error |-> "Not authenticated - rivet address required"]), wl)
  ELSE Outcome(Undef, <<>>,
               Response(200, DelegationToken(Delegation(req, now, now2, uuid))), wl)

----------------------------------------------------------------------------
(* The browser client (client.js): what it makes of a /check response *)

\* checkAccess: the parsed body of an OK response, a denial otherwise
CheckAccess(resp) ==
  IF resp.status \in 200..299 THEN resp.body
  ELSE [allowed |-> FALSE, error |-> "HTTP error"]

ResultAllowed(result) == "allowed" \in DOMAIN result /\ result.allowed

\* lazyCheck: the event dispatched for a check result
LazyCheckEvent(result) ==
  IF ResultAllowed(result) THEN "epistery:access-granted" ELSE "epistery:access-denied"

\* init in required mode: the access-denied page replaces the document
InitShowsAccessDenied(result) == ~ResultAllowed(result)

\* String.prototype.startsWith
StartsWith(s, prefix) ==
  Len(s) >= Len(prefix) /\ SubSeq(s, 1, Len(prefix)) = prefix

\* getEpisterySubdomain: the host the client sends its /check request to;
\* scriptHost is the host of the script src that loaded client.js, Undef
\* when no script element names it
GetEpisterySubdomain(hostname, scriptHost) ==
  IF hostname = "localhost" \/ hostname = "127.0.0.1"
    THEN IF scriptHost # Undef THEN scriptHost.s ELSE "localhost:4080"
  ELSE IF StartsWith(hostname, "epistery.") THEN hostname
  ELSE "epistery." \o hostname

\* getDelegationToken: the parsed cookie value; if there is no cookie or it
\* is not JSON, the parsed localStorage item, null if there is none or it is
\* not JSON
GetDelegationToken(cookie, stored) ==
  IF cookie # Undef /\ JSONparse(cookie).ok THEN JSONparse(cookie).value
  ELSE IF ~Truthy(stored) THEN Null
  ELSE IF JSONparse(stored).ok THEN JSONparse(stored).value
  ELSE Null

\* isTokenValid
IsTokenValid(token, hostname, now) ==
  IF ~Truthy(token) \/ ~Truthy(Prop(token, "delegation")) THEN FALSE
  ELSE IF JsGreater(Num(now), Prop(Prop(token, "delegation"), "expires")) THEN FALSE
  ELSE IF StrictNotEqual(Prop(Prop(token, "delegation"), "audience"), Str(hostname))
    THEN FALSE
  ELSE TRUE

\* a property of a parsed response body
Field(result, k) == IF k \in DOMAIN result THEN result[k] ELSE Undef

\* the page when the client script starts a run (init or lazyCheck)
Loaded(run, required, hostname, scriptHost, token, now) ==
  [pc |-> "loaded", run |-> run, required |-> required, hostname |-> hostname,
   scriptHost |-> scriptHost, token |-> token, now |-> now,
   sent |-> 0, response |-> Undef, result |-> Undef,
   redirected |-> FALSE, deniedPage |-> FALSE, deniedAddress |-> Undef,
   events |-> <<>>, access |-> Undef, returned |-> Undef,
   inits |-> IF run = "init" THEN 1 ELSE 0]

\* a variant of lazyCheck that asks for a delegation when there is no valid
\* token
LazyStartRedirects(p) ==
  IF ~IsTokenValid(p.token, p.hostname, p.now)
    THEN [p EXCEPT !.pc = "done", !.redirected = TRUE]
  ELSE [p EXCEPT !.pc = "checking", !.sent = @ + 1]

\* lazyCheck up to the await: passive mode without a valid token, else the
\* /check request is sent
LazyStart(p) ==
  IF ~IsTokenValid(p.token, p.hostname, p.now)
    THEN [p EXCEPT !.pc = "done",
                   !.access = [allowed |-> FALSE, mode |-> "passive",
                               message |-> "No identity delegation. Access may be restricted."],
                   !.events = Append(@, "epistery:passive-mode"),
                   !.returned = FALSE]
  ELSE [p EXCEPT !.pc = "checking", !.sent = @ + 1]

\* lazyCheck after the await
LazyFinish(p, result) ==
  [p EXCEPT !.pc = "done",
            !.result = result,
            !.access = [allowed |-> Field(result, "allowed"),
                        address |-> Field(result, "address"),
                        domain |-> Field(result, "domain"),
                        mode |-> "delegated"],
            !.events = Append(@, LazyCheckEvent(result)),
            !.returned = Field(result, "allowed")]

\* init up to the await: optional mode runs lazyCheck; required mode asks for
\* a delegation (a redirect) without a valid token, else sends /check
InitStart(p) ==
  IF ~p.required THEN LazyStart(p)
  ELSE IF ~IsTokenValid(p.token, p.hostname, p.now)
    THEN [p EXCEPT !.pc = "done", !.redirected = TRUE]
  ELSE [p EXCEPT !.pc = "checking", !.sent = @ + 1]

\* a variant of init that grants access when the check could not be made
InitFinishOpenOnError(p, result) ==
  IF ~p.required THEN LazyFinish(p, result)
  ELSE IF InitShowsAccessDenied(result) /\ "error" \notin DOMAIN result
    THEN [p EXCEPT !.pc = "done", !.result = result, !.deniedPage = TRUE,
                   !.deniedAddress =
                      IF Truthy(Field(result, "address")) THEN Field(result, "address")
                      ELSE Prop(Prop(p.token, "delegation"), "subject")]
  ELSE [p EXCEPT !.pc = "done", !.result = result,
                 !.access = [allowed |-> TRUE,
                             address |-> Field(result, "address"),
                             domain |-> Field(result, "domain"),
                             mode |-> "required"],
                 !.events = Append(@, "epistery:access-granted")]

\* init after the await
InitFinish(p, result) ==
  IF ~p.required THEN LazyFinish(p, result)
  ELSE IF InitShowsAccessDenied(result)
    THEN [p EXCEPT !.pc = "done", !.result = result, !.deniedPage = TRUE,
                   !.deniedAddress =
                      IF Truthy(Field(result, "address")) THEN Field(result, "address")
                      ELSE Prop(Prop(p.token, "delegation"), "subject")]
  ELSE [p EXCEPT !.pc = "done", !.result = result,
                 !.access = [allowed |-> TRUE,
                             address |-> Field(result, "address"),
                             domain |-> Field(result, "domain"),
                             mode |-> "required"],
                 !.events = Append(@, "epistery:access-granted")]

\* fetch rejects: there is no response
FetchFailure == [status |-> 0, body |-> Undef]

\* the run continues with the outcome of the fetch
Finish(p, resp) ==
  IF p.run = "init" THEN InitFinish([p EXCEPT !.response = resp], CheckAccess(resp))
  ELSE LazyFinish([p EXCEPT !.response = resp], CheckAccess(resp))

----------------------------------------------------------------------------
(* The requests the model sends *)

RECURSIVE Repeat(_, _)
Repeat(c, n) == IF n = 0 THEN "" ELSE c \o Repeat(c, n - 1)

Addr1 == "0x" \o Repeat("a", AddressHexDigits)
Addr2 == "0x" \o Repeat("B", AddressHexDigits)

Members == {Addr1, Addr2}

\* body.address values: well formed, too short, too long, a non-hex digit,
\* an upper-case prefix, no prefix, empty, absent
BodyAddresses ==
  {Str(Addr1), Str(Addr2),
   Str("0x" \o Repeat("a", AddressHexDigits - 1)),
   Str("0x" \o Repeat("a", AddressHexDigits + 1)),
   Str("0x" \o Repeat("a", AddressHexDigits - 1) \o "g"),
   Str("0X" \o Repeat("a", AddressHexDigits)),
   Str(Repeat("a", AddressHexDigits + 2)),
   Str(""), Undef}

PublisherHost == "shop.example.com"
EpisteryHost == "epistery.shop.example.com"

\* (req.hostname, Host header) pairs
RequestHosts ==
  {<<Str(PublisherHost), Str("shop.example.com:8080")>>,
   <<Undef, Str("shop.example.com:8080")>>,
   <<Undef, Undef>>,
   <<Str("other.example.com"), Str("other.example.com")>>}

Audiences ==
  {Undef, Str(PublisherHost), Str("Shop.Example.com"),
   Str("www.shop.example.com"), Str("example.com")}

Subjects == {Undef, Str(Addr1), Str(Addr2)}

Expiries(now) == {Undef, Num(now - 1), Num(now), Num(now + 1), Str("soon")}

Scopes ==
  {Undef, Arr(<<"whitelist:read">>), Arr(<<"whitelist:read", "whitelist:admin">>),
   Arr(<<"whitelist:administrator">>), Str("whitelist:administrator"),
   Str("whitelist:read"), Num(7), Arr(<<>>)}

CraftedDelegation(subject, audience, expires, scope) ==
  [t |-> "object", issuer |-> Str(EpisteryHost), subject |-> subject,
   audience |-> audience, scope |-> scope, expires |-> expires,
   nonce |-> Undef, createdAt |-> Undef]

\* the signatures a crafted token carries: none, an arbitrary string, the
\* placeholder hash of the delegation
Signatures(delegation) ==
  {Undef, Str("forged"), Sha256Hex(JSONstringify(delegation))}

CraftedTokens(subjects, audiences, expiries, scopes) ==
  UNION {{[t |-> "object", delegation |-> d, signature |-> g] : g \in Signatures(d)} :
           d \in {CraftedDelegation(s, a, e, c) :
                    s \in subjects, a \in audiences, e \in expiries, c \in scopes}}

\* token data that does not hold a delegation object
MalformedTokenData ==
  {Str("{not json"), JsonText(Null), JsonText(Num(5)),
   JsonText([t |-> "object", signature |-> Str("forged")]),
   JsonText([t |-> "object", delegation |-> Null, signature |-> Str("forged")]),
   JsonText([t |-> "object", delegation |-> Num(5), signature |-> Str("forged")])}

NoBody == [t |-> "object"]

\* the ways a token travels: the header, the cookie as text, the cookie as
\* an object, or not at all
Carried(tokens) ==
  {<<JsonText(k), Undef>> : k \in tokens}
    \cup {<<Undef, Undef>>, <<Str(""), Undef>>}
    \cup {<<h, Undef>> : h \in MalformedTokenData}

CookieCarried(tokens) ==
  {<<Undef, JsonText(k)>> : k \in tokens} \cup {<<Undef, k>> : k \in tokens}
    \cup {<<Str(""), JsonText(k)>> : k \in tokens}

\* a header and a cookie that carry different tokens: one of them expired or
\* not JSON, the other valid
BothCarried(now) ==
  LET good == [t |-> "object",
               delegation |-> CraftedDelegation(Str(Addr1), Str(PublisherHost), Num(now + 1),
                                                Arr(<<"whitelist:read">>)),
               signature |-> Str("forged")]
      bad == [t |-> "object",
              delegation |-> CraftedDelegation(Str(Addr2), Str(PublisherHost), Num(now - 1),
                                               Arr(<<"whitelist:read">>)),
              signature |-> Str("forged")]
  IN  {<<JsonText(bad), JsonText(good)>>, <<JsonText(good), JsonText(bad)>>,
       <<Str("{not json"), JsonText(good)>>, <<JsonText(good), Str("{not json")>>}

TokenRequests(carried, hosts, bodies) ==
  {Request(c[1], c[2], h[1], h[2], b, Undef) :
     c \in carried, h \in hosts, b \in bodies}

\* GET /check: every combination of subject, audience, expires and signature
CheckRequests(now) ==
  TokenRequests(
    Carried(CraftedTokens(Subjects, Audiences, Expiries(now), {Arr(<<"whitelist:read">>)}))
      \cup CookieCarried(CraftedTokens({Str(Addr1)}, {Str(PublisherHost)},
                                       {Num(now - 1), Num(now + 1)},
                                       {Arr(<<"whitelist:read">>)}))
      \cup BothCarried(now),
    RequestHosts, {NoBody})

AdminTokens(now) ==
  CraftedTokens({Undef, Str(Addr1)}, {Str(PublisherHost), Str("www.shop.example.com")},
                {Num(now - 1), Num(now + 1)}, Scopes)

\* GET /list: every scope, on valid and invalid tokens
ListRequests(now) ==
  TokenRequests(Carried(AdminTokens(now)),
                {<<Str(PublisherHost), Str("shop.example.com:8080")>>}, {NoBody})

\* POST /add, POST /remove: every scope and every body address
ChangeRequests(now) ==
  TokenRequests(Carried(AdminTokens(now)),
                {<<Str(PublisherHost), Str("shop.example.com:8080")>>},
                {[t |-> "object", address |-> a] : a \in BodyAddresses})

\* POST /delegate bodies and sessions
DurationDays == {Undef, Num(0), Num(1), Num(0 - 1), Str("a month")}

DelegateRequests ==
  {Request(Undef, Undef, Str(EpisteryHost), Str(EpisteryHost),
           [t |-> "object", domain |-> d, scope |-> c, durationDays |-> n,
            rivetAddress |-> r], u) :
     d \in {Undef, Str(PublisherHost)},
     c \in {Undef, Arr(<<"whitelist:admin">>)},
     n \in DurationDays,
     r \in {Undef, Str(Addr2)},
     u \in {Undef, [t |-> "object", rivetAddress |-> Str(Addr1)]}}

\* what the holder of a token may present: the token as issued, or the token
\* with a field of the delegation replaced or the signature removed
Altered(token, now) ==
  IF Nullish(token) THEN {}
  ELSE {token,
        [token EXCEPT !.delegation.subject = Str(Addr2)],
        [token EXCEPT !.delegation.subject = Str(Addr1)],
        [token EXCEPT !.delegation.audience = Str("other.example.com")],
        [token EXCEPT !.delegation.expires = Num(now + Day)],
        [token EXCEPT !.delegation.scope = Arr(<<"whitelist:admin">>)],
        [token EXCEPT !.signature = Undef]}

\* checkAccess sends the token in the X-Epistery-Delegation header
HeldRequests(token, now) ==
  {Request(JSONstringify(k), Undef, h[1], h[2], NoBody, Undef) :
     k \in Altered(token, now),
     h \in {<<Str(PublisherHost), Str(PublisherHost)>>,
            <<Str("other.example.com"), Str("other.example.com")>>}}

----------------------------------------------------------------------------
(* State and actions *)

Idle == [state |-> "idle"]

\* no request is being handled in this slot
NoFlight == [pc |-> "free"]

\* no run of the client script is in progress
NoPage == [pc |-> "none"]

Init ==
  /\ whitelist \in SUBSET Members
  /\ appLocalsEpistery = FALSE
  /\ thisEpistery = FALSE
  /\ clock = [days |-> 0, secs |-> 0]
  /\ nonces = 0
  /\ held = Null
  /\ conn = Idle
  /\ previous = Null
  /\ chain = [committed |-> {}, revoked |-> {}]
  /\ page = NoPage
  /\ flights = [i \in 1..MaxFlights |-> NoFlight]

\* the handler's answer is recorded and the list takes the value it left
Answer(impl, endpoint, req, epi, serviceOk, out) ==
  /\ conn' = [state |-> "answered", impl |-> impl, endpoint |-> endpoint,
              req |-> req, now |-> DateNow, epi |-> epi, serviceOk |-> serviceOk,
              before |-> whitelist,
              verification |-> out.verification, calls |-> out.calls,
              resp |-> out.resp]
  /\ whitelist' = out.wl

WhiteListAgent == "WhiteListAgent"
CreateWhiteListAgent == "createWhiteListAgent"

AgentGetCheck(requests) ==
  /\ conn = Idle
  /\ \E req \in requests, serviceOk \in BOOLEAN :
       LET epi == AttachMiddleware(thisEpistery, appLocalsEpistery)
       IN  /\ thisEpistery' = epi
           /\ Answer(WhiteListAgent, "GET /check", req, epi, serviceOk,
                     AgentCheck(req, DateNow, epi, whitelist, serviceOk))
  /\ UNCHANGED <<appLocalsEpistery, clock, nonces, held, previous, chain, page,
                 flights>>

AgentGetList(requests) ==
  /\ conn = Idle
  /\ \E req \in requests, serviceOk \in BOOLEAN :
       LET epi == AttachMiddleware(thisEpistery, appLocalsEpistery)
       IN  /\ thisEpistery' = epi
           /\ Answer(WhiteListAgent, "GET /list", req, epi, serviceOk,
                     AgentList(req, DateNow, epi, whitelist, serviceOk))
  /\ UNCHANGED <<appLocalsEpistery, clock, nonces, held, previous, chain, page,
                 flights>>

AgentPostAdd(requests) ==
  /\ conn = Idle
  /\ \E req \in requests, serviceOk \in BOOLEAN :
       LET epi == AttachMiddleware(thisEpistery, appLocalsEpistery)
       IN  /\ thisEpistery' = epi
           /\ Answer(WhiteListAgent, "POST /add", req, epi, serviceOk,
                     AgentAdd(req, DateNow, epi, whitelist, serviceOk))
  /\ UNCHANGED <<appLocalsEpistery, clock, nonces, held, previous, chain, page,
                 flights>>

AgentPostRemove(requests) ==
  /\ conn = Idle
  /\ \E req \in requests, serviceOk \in BOOLEAN :
       LET epi == AttachMiddleware(thisEpistery, appLocalsEpistery)
       IN  /\ thisEpistery' = epi
           /\ Answer(WhiteListAgent, "POST /remove", req, epi, serviceOk,
                     AgentRemove(req, DateNow, epi, whitelist, serviceOk))
  /\ UNCHANGED <<appLocalsEpistery, clock, nonces, held, previous, chain, page,
                 flights>>

AgentGetStatus ==
  /\ conn = Idle
  /\ \E serviceOk \in BOOLEAN :
       LET epi == AttachMiddleware(thisEpistery, appLocalsEpistery)
           req == Request(Undef, Undef, Str(EpisteryHost), Str(EpisteryHost), NoBody, Undef)
       IN  /\ thisEpistery' = epi
           /\ Answer(WhiteListAgent, "GET /status", req, epi, serviceOk,
                     AgentStatus(epi, whitelist, serviceOk))
  /\ UNCHANGED <<appLocalsEpistery, clock, nonces, held, previous, chain, page,
                 flights>>

RouterGetCheck(requests) ==
  /\ conn = Idle
  /\ \E req \in requests, serviceOk \in BOOLEAN :
       Answer(CreateWhiteListAgent, "GET /check", req, TRUE, serviceOk,
              RouterCheck(req, DateNow, whitelist, serviceOk))
  /\ UNCHANGED <<appLocalsEpistery, thisEpistery, clock, nonces, held,
                 previous, chain, page, flights>>

RouterGetList(requests) ==
  /\ conn = Idle
  /\ \E req \in requests, serviceOk \in BOOLEAN :
       Answer(CreateWhiteListAgent, "GET /list", req, TRUE, serviceOk,
              RouterList(req, DateNow, whitelist, serviceOk))
  /\ UNCHANGED <<appLocalsEpistery, thisEpistery, clock, nonces, held,
                 previous, chain, page, flights>>

RouterGetStatus ==
  /\ conn = Idle
  /\ \E serviceOk \in BOOLEAN :
       Answer(CreateWhiteListAgent, "GET /status",
              Request(Undef, Undef, Str(EpisteryHost), Str(EpisteryHost), NoBody, Undef),
              TRUE, serviceOk, RouterStatus(whitelist, serviceOk))
  /\ UNCHANGED <<appLocalsEpistery, thisEpistery, clock, nonces, held,
                 previous, chain, page, flights>>

\* POST /delegate reads the clock twice (expires, createdAt); a unit of
\* time may pass in between.  A token is issued with a fresh UUID.
RouterPostDelegate(requests) ==
  /\ conn = Idle
  /\ \E req \in requests, passed \in {0, 1} :
       LET out == RouterDelegate(req, DateNow, DateNow + passed, nonces + 1, whitelist)
           issued == out.resp.status = 200
       IN  /\ issued => nonces < MaxNonces
           /\ (issued /\ clock.secs + passed <= MaxSecs) \/ (passed = 0)
           /\ nonces' = IF issued THEN nonces + 1 ELSE nonces
           /\ clock' = [clock EXCEPT !.secs = @ + passed]
           /\ Answer(CreateWhiteListAgent, "POST /delegate", req, TRUE, TRUE, out)
  /\ UNCHANGED <<appLocalsEpistery, thisEpistery, held, previous, chain, page, flights>>

\* the page that asked for the delegation keeps the token of the response
\* body (response.json()) as the visitor's delegation token
StoreDelegation ==
  /\ conn # Idle
  /\ conn.endpoint = "POST /delegate"
  /\ conn.resp.status = 200
  /\ held' = JsonValue(conn.resp.body)
  /\ conn' = Idle
  /\ UNCHANGED <<whitelist, appLocalsEpistery, thisEpistery, clock, nonces,
                 previous, chain, page, flights>>

\* the response has been sent; the next request can be answered
Close ==
  /\ conn # Idle
  /\ conn' = Idle
  /\ previous' = Null
  /\ UNCHANGED <<whitelist, appLocalsEpistery, thisEpistery, clock, nonces, held,
                 chain, page, flights>>

\* the host puts its epistery instance into app.locals
HostSetsEpistery ==
  /\ ~appLocalsEpistery
  /\ appLocalsEpistery' = TRUE
  /\ UNCHANGED <<whitelist, thisEpistery, clock, nonces, held, conn, previous,
                 chain, page, flights>>

\* time passes: a unit of time or a day
Tick ==
  /\ conn = Idle
  /\ \/ clock.secs < MaxSecs /\ clock' = [clock EXCEPT !.secs = @ + 1]
     \/ clock.days < MaxDays /\ clock' = [clock EXCEPT !.days = @ + 1]
  /\ UNCHANGED <<whitelist, appLocalsEpistery, thisEpistery, nonces, held,
                 conn, previous, chain, page, flights>>

\* GET /check requests that are sent twice
RepeatedRequests(now) ==
  TokenRequests(
    Carried(CraftedTokens({Str(Addr1)}, {Str(PublisherHost), Str("other.example.com")},
                          Expiries(now), {Arr(<<"whitelist:read">>)})),
    {<<Str(PublisherHost), Str("shop.example.com:8080")>>,
     <<Str("other.example.com"), Str("other.example.com")>>},
    {NoBody})

\* GET /check requests of other visitors, sent in between
OtherRequests(now) ==
  TokenRequests(
    {<<JsonText(k), Undef>> :
       k \in {c \in CraftedTokens({Str(Addr2)}, {Str(PublisherHost)}, {Num(now + 1)},
                                  {Arr(<<"whitelist:read">>)}) :
                c.signature = Str("forged")}}
      \cup {<<Undef, Undef>>},
    {<<Str(PublisherHost), Str("shop.example.com:8080")>>}, {NoBody})

\* what is kept of a verification attempt
Attempt(c) ==
  [impl |-> c.impl, req |-> c.req, now |-> c.now, verification |-> c.verification]

\* An answered GET /check is followed by another GET /check to the same
\* implementation: the first request again, or a request of another visitor
\* and then the first request again.  A unit of time may have passed.
CheckAgain ==
  /\ conn # Idle
  /\ conn.endpoint = "GET /check"
  /\ IF previous = Null THEN TRUE ELSE conn.req # previous.req
  /\ \E passed \in {0, 1}, serviceOk \in BOOLEAN :
       LET first == IF previous = Null THEN Attempt(conn) ELSE previous
           now == DateNow + passed
           epi == IF conn.impl = WhiteListAgent
                  THEN AttachMiddleware(thisEpistery, appLocalsEpistery)
                  ELSE TRUE
       IN  /\ clock.secs + passed <= MaxSecs
           /\ clock' = [clock EXCEPT !.secs = @ + passed]
           /\ previous' = first
           /\ thisEpistery' = IF conn.impl = WhiteListAgent THEN epi ELSE thisEpistery
           /\ \E req \in IF previous = Null THEN {first.req} \cup OtherRequests(DateNow)
                         ELSE {first.req} :
                LET out == IF conn.impl = WhiteListAgent
                           THEN AgentCheck(req, now, epi, whitelist, serviceOk)
                           ELSE RouterCheck(req, now, whitelist, serviceOk)
                IN  /\ conn' = [state |-> "answered", impl |-> conn.impl,
                                endpoint |-> "GET /check", req |-> req, now |-> now,
                                epi |-> epi, serviceOk |-> serviceOk,
                                before |-> whitelist,
                                verification |-> out.verification,
                                calls |-> out.calls, resp |-> out.resp]
                    /\ whitelist' = out.wl
  /\ UNCHANGED <<appLocalsEpistery, nonces, held, chain, page, flights>>

\* the (subject, audience) pair a delegation names
DelegationPair(delegation) ==
  <<Prop(delegation, "subject"), Prop(delegation, "audience")>>

\* the pair of the visitor's token is committed to the on-chain delegation
\* set (the Merkle tree is updated)
ChainCommit ==
  /\ conn = Idle
  /\ ~Nullish(held)
  /\ DelegationPair(held.delegation) \notin chain.committed \cup chain.revoked
  /\ chain' = [chain EXCEPT !.committed = @ \cup {DelegationPair(held.delegation)}]
  /\ UNCHANGED <<whitelist, appLocalsEpistery, thisEpistery, clock, nonces, held, conn,
                 previous, page, flights>>

\* a committed pair is removed from the on-chain delegation set
ChainRevoke ==
  /\ conn = Idle
  /\ \E pair \in chain.committed :
       chain' = [committed |-> chain.committed \ {pair},
                 revoked |-> chain.revoked \cup {pair}]
  /\ UNCHANGED <<whitelist, appLocalsEpistery, thisEpistery, clock, nonces, held, conn,
                 previous, page, flights>>

\* the pages the client script runs on: window.location.hostname
PageHostnames == {PublisherHost, EpisteryHost, "localhost"}

\* the host of the script src, when the page names it
ScriptHosts == {Undef, Str("localhost:3000")}

\* what the epistery_delegation cookie holds: nothing, text that is not JSON,
\* JSON that is no token, or a token
CookieValues(now) ==
  {Undef, Str("{not json"), JsonText(Null), JsonText(Num(5)),
   JsonText([t |-> "object", signature |-> Str("forged")])}
    \cup {JsonText(k) :
            k \in CraftedTokens({Str(Addr1), Str(Addr2)},
                                {Str(h) : h \in PageHostnames},
                                {Num(now - 1), Num(now), Str("soon")},
                                {Arr(<<"whitelist:read">>)})}

\* what localStorage holds under the same name
StoredValues(now) ==
  {Null, Str("{not json")}
    \cup {JsonText(k) :
            k \in {c \in CraftedTokens({Str(Addr1)}, {Str(PublisherHost), Str("localhost")},
                                       {Num(now + 1)}, {Arr(<<"whitelist:read">>)}) :
                     c.signature = Str("forged")}}

\* the /check request a page has sent (checkAccess): to the epistery
\* subdomain, the token in the X-Epistery-Delegation header
PageRequests ==
  IF page.pc # "checking" THEN {}
  ELSE LET host == GetEpisterySubdomain(page.hostname, page.scriptHost)
       IN  {Request(JSONstringify(page.token), Undef, Str(BeforeColon(host)), Str(host),
                    NoBody, Undef)}

\* the client script runs init on a page: DOMContentLoaded
PageInit ==
  /\ page = NoPage
  /\ conn = Idle
  /\ \E required \in BOOLEAN, hostname \in PageHostnames, scriptHost \in ScriptHosts,
        cookie \in CookieValues(DateNow), stored \in StoredValues(DateNow) :
       page' = InitStart(Loaded("init", required, hostname, scriptHost,
                                GetDelegationToken(cookie, stored), DateNow))
  /\ UNCHANGED <<whitelist, appLocalsEpistery, thisEpistery, clock, nonces, held, conn,
                 previous, chain, flights>>

\* the page calls window.episteryWhiteList.check
PageLazyCheck ==
  /\ page = NoPage
  /\ conn = Idle
  /\ \E required \in BOOLEAN, hostname \in PageHostnames, scriptHost \in ScriptHosts,
        cookie \in CookieValues(DateNow), stored \in StoredValues(DateNow) :
       page' = LazyStart(Loaded("lazyCheck", required, hostname, scriptHost,
                                GetDelegationToken(cookie, stored), DateNow))
  /\ UNCHANGED <<whitelist, appLocalsEpistery, thisEpistery, clock, nonces, held, conn,
                 previous, chain, flights>>

\* the response of /check arrives and the run continues
PageReceives ==
  /\ page.pc = "checking"
  /\ conn # Idle
  /\ page' = Finish(page, conn.resp)
  /\ conn' = Idle
  /\ UNCHANGED <<whitelist, appLocalsEpistery, thisEpistery, clock, nonces, held,
                 previous, chain, flights>>

\* the /check request fails on the network
FetchFails ==
  /\ page.pc = "checking"
  /\ conn = Idle
  /\ page' = Finish(page, FetchFailure)
  /\ UNCHANGED <<whitelist, appLocalsEpistery, thisEpistery, clock, nonces, held, conn,
                 previous, chain, flights>>

\* GET /check requests handled concurrently: a token that expires at
\* EpochStart, another visitor's token that expires a day later, no token
ConcurrentRequests ==
  TokenRequests(
    {<<JsonText(k), Undef>> :
       k \in {c \in CraftedTokens({Str(Addr1)}, {Str(PublisherHost)}, {Num(EpochStart)},
                                  {Arr(<<"whitelist:read">>)})
                    \cup CraftedTokens({Str(Addr2)}, {Str(PublisherHost)},
                                       {Num(EpochStart + Day)}, {Arr(<<"whitelist:read">>)}) :
                c.signature = Str("forged")}}
      \cup {<<Undef, Undef>>},
    {<<Str(PublisherHost), Str("shop.example.com:8080")>>}, {NoBody})

\* GET /check of WhiteListAgent up to its first await: the middleware stores
\* the epistery instance, verifyDelegationToken runs (it has no await of its
\* own and reads the clock now), and the handler waits for its result
FlightArrives ==
  \E i \in 1..MaxFlights :
    /\ flights[i] = NoFlight
    /\ \A j \in 1..(i - 1) : flights[j] # NoFlight
    /\ \E req \in ConcurrentRequests :
         /\ thisEpistery' = AttachMiddleware(thisEpistery, appLocalsEpistery)
         /\ flights' = [flights EXCEPT ![i] =
                          [pc |-> "verified", req |-> req, now |-> DateNow,
                           verification |-> VerifyDelegationToken(req, DateNow)]]
    /\ UNCHANGED <<whitelist, appLocalsEpistery, clock, nonces, held, conn, previous,
                   chain, page>>

\* the handler continues after await verifyDelegationToken: it answers 401
\* for an invalid result and 500 while this.epistery is null, and the
\* request is over; otherwise it calls isWhitelisted and waits
FlightResumes ==
  \E i \in 1..MaxFlights :
    /\ flights[i].pc = "verified"
    /\ flights' = [flights EXCEPT ![i] =
                     IF ~flights[i].verification.valid \/ ~thisEpistery THEN NoFlight
                     ELSE [@ EXCEPT !.pc = "lookup"]]
    /\ UNCHANGED <<whitelist, appLocalsEpistery, thisEpistery, clock, nonces, held, conn,
                   previous, chain, page>>

\* isWhitelisted returns or throws: the handler answers 200 or 500 and the
\* request is over
FlightLookupReturns ==
  \E i \in 1..MaxFlights :
    /\ flights[i].pc = "lookup"
    /\ flights' = [flights EXCEPT ![i] = NoFlight]
    /\ UNCHANGED <<whitelist, appLocalsEpistery, thisEpistery, clock, nonces, held, conn,
                   previous, chain, page>>

\* a unit of time passes while requests are being handled
Elapse ==
  /\ clock.secs < MaxSecs
  /\ clock' = [clock EXCEPT !.secs = @ + 1]
  /\ UNCHANGED <<whitelist, appLocalsEpistery, thisEpistery, nonces, held, conn,
                 previous, chain, page, flights>>

\* the host takes its epistery instance out of app.locals
HostClearsEpistery ==
  /\ appLocalsEpistery
  /\ appLocalsEpistery' = FALSE
  /\ UNCHANGED <<whitelist, thisEpistery, clock, nonces, held, conn, previous, chain,
                 page, flights>>

\* a later run of the client script on the same page: window.episteryAccess
\* and the cookie are as the earlier run left them, the events are those of
\* the new run
Again(run) ==
  [Loaded(run, page.required, page.hostname, page.scriptHost, page.token, DateNow)
     EXCEPT !.sent = page.sent, !.response = page.response, !.access = page.access,
            !.inits = page.inits + (IF run = "init" THEN 1 ELSE 0)]

\* the page calls window.episteryWhiteList.check again
PageChecksAgain ==
  /\ page.pc = "done"
  /\ conn = Idle
  /\ ~page.redirected
  /\ ~page.deniedPage
  /\ page.sent < MaxChecks
  /\ page' = LazyStart(Again("lazyCheck"))
  /\ UNCHANGED <<whitelist, appLocalsEpistery, thisEpistery, clock, nonces, held, conn,
                 previous, chain, flights>>

\* DOMContentLoaded fires after the page has called
\* window.episteryWhiteList.check, which the script exports when it loads:
\* init runs
PageInitLate ==
  /\ page.pc = "done"
  /\ conn = Idle
  /\ page.inits = 0
  /\ page.sent < MaxChecks
  /\ page' = InitStart(Again("init"))
  /\ UNCHANGED <<whitelist, appLocalsEpistery, thisEpistery, clock, nonces, held, conn,
                 previous, chain, flights>>

----------------------------------------------------------------------------
(* Specifications *)

\* the verifying endpoints of both implementations under crafted requests
Next ==
  \/ AgentGetCheck(CheckRequests(DateNow))
  \/ AgentGetList(ListRequests(DateNow))
  \/ AgentPostAdd(ChangeRequests(DateNow))
  \/ AgentPostRemove(ChangeRequests(DateNow))
  \/ AgentGetStatus
  \/ RouterGetCheck(CheckRequests(DateNow))
  \/ RouterGetList(ListRequests(DateNow))
  \/ RouterGetStatus
  \/ HostSetsEpistery
  \/ Close

Spec == Init /\ [][Next]_vars

\* issuance and the presentation of the issued token, as time passes
NextIssue ==
  \/ RouterPostDelegate(DelegateRequests)
  \/ StoreDelegation
  \/ RouterGetCheck(HeldRequests(held, DateNow))
  \/ Tick
  \/ Close

SpecIssue == Init /\ [][NextIssue]_vars

\* GET /check requests of several visitors, and requests sent again
NextRepeat ==
  \/ AgentGetCheck(RepeatedRequests(DateNow))
  \/ RouterGetCheck(RepeatedRequests(DateNow))
  \/ CheckAgain
  \/ HostSetsEpistery
  \/ Close

SpecRepeat == Init /\ [][NextRepeat]_vars

\* issuance, commitment and revocation of a delegation, and the presentation
\* of its token
NextRevoke ==
  \/ RouterPostDelegate(DelegateRequests)
  \/ StoreDelegation
  \/ ChainCommit
  \/ ChainRevoke
  \/ RouterGetCheck(HeldRequests(held, DateNow))
  \/ Close

SpecRevoke == Init /\ [][NextRevoke]_vars

\* the client script on a page, and the server answering its /check request
NextClient ==
  \/ PageInit
  \/ PageLazyCheck
  \/ AgentGetCheck(PageRequests)
  \/ RouterGetCheck(PageRequests)
  \/ PageReceives
  \/ FetchFails
  \/ HostSetsEpistery

SpecClient == Init /\ [][NextClient]_vars

\* WhiteListAgent handling several GET /check requests at once, interleaved
\* at the awaits of the handler
NextConcurrent ==
  \/ FlightArrives
  \/ FlightResumes
  \/ FlightLookupReturns
  \/ Elapse
  \/ HostSetsEpistery
  \/ HostClearsEpistery

SpecConcurrent == Init /\ [][NextConcurrent]_vars

\* the client script on a page that runs it more than once
NextClientRuns ==
  \/ PageInit
  \/ PageLazyCheck
  \/ PageChecksAgain
  \/ PageInitLate
  \/ AgentGetCheck(PageRequests)
  \/ RouterGetCheck(PageRequests)
  \/ PageReceives
  \/ FetchFails
  \/ HostSetsEpistery

SpecClientRuns == Init /\ [][NextClientRuns]_vars

----------------------------------------------------------------------------
(* Properties *)

Answered == conn # Idle

VerifyingEndpoints == {"GET /check", "GET /list", "POST /add", "POST /remove"}

Verified == Answered /\ conn.endpoint \in VerifyingEndpoints

\* the token the request presents: the parsed token data, Undef if there is
\* none or it is not JSON
Presented(req) ==
  LET tokenData == TokenData(req)
  IN  IF ~Truthy(tokenData) THEN Undef
      ELSE IF ~IsString(tokenData) THEN tokenData
      ELSE IF "json" \in DOMAIN tokenData THEN tokenData.json
      ELSE Undef

PresentedDelegation(req) == Prop(Presented(req), "delegation")

\* a < b as numbers
JsLess(a, b) ==
  LET x == ToNumber(a)
      y == ToNumber(b)
  IN  x.t = "number" /\ y.t = "number" /\ x.n < y.n

\* the capability is an element of the scope set
HoldsCapability(scope, capability) ==
  scope.t = "array" /\ capability \in {scope.a[i] : i \in 1..Len(scope.a)}

\* C1: verifyDelegationToken returns valid only if the signature was made by
\* the claimed subject over exactly the presented claim: of the tokens a
\* holder presents, only the token as POST /delegate issued it is valid; one
\* whose delegation was altered after signing is denied and no membership
\* lookup is made for it.
C1_OnlyTheSignedClaimIsValid ==
  (Answered /\ conn.endpoint = "GET /check" /\ Presented(conn.req) # held)
    => (~conn.verification.valid /\ conn.calls = <<>>)

\* C2: a presented token whose delegation.expires is less than the current
\* time is answered invalid with 'Token expired' (401), whatever its
\* signature, subject and audience.
C2_ExpiredTokenIsExpired ==
  (Verified /\ JsLess(Prop(PresentedDelegation(conn.req), "expires"), Num(conn.now)))
    => /\ conn.verification = Invalid("Token expired")
       /\ conn.resp.status = 401
       /\ conn.resp.body.error = "Token expired"

\* an expired token without signature and subject, for another audience
C2_Witness ==
  /\ Verified
  /\ JsLess(Prop(PresentedDelegation(conn.req), "expires"), Num(conn.now))
  /\ Prop(Presented(conn.req), "signature") = Undef
  /\ Prop(PresentedDelegation(conn.req), "subject") = Undef
  /\ Prop(PresentedDelegation(conn.req), "audience") # RequestDomain(conn.req)
  /\ conn.verification = Invalid("Token expired")

\* the presented token holds a delegation whose audience is not the request's
\* hostname
AudienceDiffers ==
  /\ Verified
  /\ ~Nullish(PresentedDelegation(conn.req))
  /\ Prop(PresentedDelegation(conn.req), "audience") # RequestDomain(conn.req)

\* C3 as stated: every presented token whose audience differs from the
\* request hostname yields 'Token audience mismatch' and 401.
C3_AudienceMismatchAlways ==
  AudienceDiffers
    => /\ conn.verification = Invalid("Token audience mismatch")
       /\ conn.resp.status = 401

\* C3 as amended: a presented token whose audience differs from the request
\* hostname (in letter case only, as a subdomain or a parent domain too) is
\* answered 401; the reason is 'Token audience mismatch' unless the token is
\* expired, and then it is 'Token expired'.
C3_AudienceMismatchUnlessExpired ==
  AudienceDiffers
    => /\ conn.resp.status = 401
       /\ conn.resp.body.error = conn.verification.error
       /\ conn.verification =
            IF JsLess(Prop(PresentedDelegation(conn.req), "expires"), Num(conn.now))
            THEN Invalid("Token expired")
            ELSE Invalid("Token audience mismatch")

\* an unexpired token whose audience differs from the hostname in case only
C3_Witness ==
  /\ AudienceDiffers
  /\ Prop(PresentedDelegation(conn.req), "audience") = Str("Shop.Example.com")
  /\ RequestDomain(conn.req) = Str("shop.example.com")
  /\ Truthy(Prop(Presented(conn.req), "signature"))
  /\ conn.verification = Invalid("Token audience mismatch")

\* the session's rivet address, Undef when there is no authenticated session
SessionRivet(req) == Prop(req.session, "rivetAddress")

\* C4: POST /delegate issues a token only for the session's rivet address: a
\* request without an authenticated session is answered 401 (400 when it
\* names no domain) and no token is produced, whatever address the body
\* names; a request without a domain is answered 400.
C4_DelegateOnlyForSession ==
  (Answered /\ conn.endpoint = "POST /delegate")
    => /\ ~Truthy(Prop(conn.req.body, "domain")) => conn.resp.status = 400
       /\ (Truthy(Prop(conn.req.body, "domain")) /\ ~Truthy(SessionRivet(conn.req)))
            => conn.resp.status = 401
       /\ conn.resp.status = 200
            => conn.resp.body.delegation.subject = SessionRivet(conn.req)

AdminEndpoints == {"GET /list", "POST /add", "POST /remove"}

\* C5: on /list, /add and /remove a valid token passes authorization iff
\* 'whitelist:admin' is an element of its scope set; every other valid token
\* is answered 403 and the membership service is not called.
C5_AdminIffScopeElement ==
  (Answered /\ conn.endpoint \in AdminEndpoints /\ conn.verification.valid)
    => IF HoldsCapability(conn.verification.scope, AdminScope)
       THEN conn.resp.status # 403
       ELSE conn.resp.status = 403 /\ conn.calls = <<>>

\* C6: the membership list is changed only by a POST /add or POST /remove
\* whose token is valid, whose scope holds whitelist:admin and whose body
\* address is 0x and 40 hex digits; an answer 400, 401, 403 or 500 and every
\* other endpoint leave it unchanged.
C6_ListChangedOnlyByAdmin ==
  Answered
    => /\ whitelist # conn.before
            => /\ conn.endpoint \in {"POST /add", "POST /remove"}
               /\ conn.verification.valid
               /\ HoldsCapability(conn.verification.scope, AdminScope)
               /\ MatchesAddress(Prop(conn.req.body, "address").s)
       /\ conn.resp.status \in {400, 401, 403, 500} => whitelist = conn.before

\* C7: GET /check answers 401 exactly when verification fails; when it
\* succeeds and the membership service answers, the response is 200 with
\* allowed the service's answer for the token's subject, address the token's
\* subject and domain the token's audience.
C7_CheckReportsMembership ==
  (Answered /\ conn.endpoint = "GET /check")
    => /\ conn.resp.status = 401 <=> ~conn.verification.valid
       /\ (conn.verification.valid /\ conn.epi /\ conn.serviceOk)
            => /\ conn.resp.status = 200
               /\ conn.resp.body.allowed
                    = IsWhitelisted(conn.before,
                                    Prop(PresentedDelegation(conn.req), "subject"))
               /\ conn.resp.body.address
                    = Prop(PresentedDelegation(conn.req), "subject")
               /\ conn.resp.body.domain
                    = Prop(PresentedDelegation(conn.req), "audience")

\* a verified visitor who is not a member is answered 200 {allowed: false}
C7_Witness ==
  /\ Answered
  /\ conn.endpoint = "GET /check"
  /\ conn.verification.valid
  /\ ~IsWhitelisted(conn.before, conn.verification.rivetAddress)
  /\ conn.resp.status = 200
  /\ conn.resp.body.allowed = FALSE

\* now <= e as numbers
NotLaterThan(now, e) ==
  LET y == ToNumber(e)
  IN  y.t = "number" /\ now <= y.n

\* the held token is presented as issued, on the hostname it was issued
\* for, not later than its expires
PresentedAsIssued ==
  /\ Answered
  /\ conn.endpoint = "GET /check"
  /\ ~Nullish(held)
  /\ Presented(conn.req) = held
  /\ RequestDomain(conn.req) = held.delegation.audience
  /\ NotLaterThan(conn.now, held.delegation.expires)

\* C8: a token returned by POST /delegate, presented unmodified on GET /check
\* with the hostname it names, not later than its expires, verifies as valid
\* with its subject and audience, and the response says allowed: true
\* whenever the membership service reports the subject a member.
C8_IssuedTokenVerifies ==
  PresentedAsIssued
    => /\ conn.verification.valid
       /\ conn.verification.rivetAddress = held.delegation.subject
       /\ conn.verification.domain = held.delegation.audience
       /\ conn.serviceOk
            => /\ conn.resp.status = 200
               /\ conn.resp.body.address = held.delegation.subject
               /\ conn.resp.body.domain = held.delegation.audience
               /\ conn.resp.body.allowed = IsWhitelisted(conn.before, held.delegation.subject)

\* a member's token presented a day after issuance, at the very time it
\* expires
C8_Witness ==
  /\ PresentedAsIssued
  /\ clock.days = 1
  /\ held.delegation.expires = Num(conn.now)
  /\ conn.resp.status = 200
  /\ conn.resp.body.allowed = TRUE

\* the membership service was needed for GET /check and was not there, or
\* its call failed
CheckServiceFailed ==
  /\ Answered
  /\ conn.endpoint = "GET /check"
  /\ conn.verification.valid
  /\ ~conn.epi \/ ~conn.serviceOk

\* C9: a failure of the membership service is answered with a 500-class
\* status and is never an access decision: not allowed: true, and the caller
\* (the client's checkAccess, lazyCheck and init) is not given a denial.
C9_ServiceFailureIsNoDecision ==
  CheckServiceFailed
    => /\ conn.resp.status \in 500..599
       /\ ~ResultAllowed(conn.resp.body)
       /\ "allowed" \notin DOMAIN CheckAccess(conn.resp)
       /\ LazyCheckEvent(CheckAccess(conn.resp)) # "epistery:access-denied"
       /\ ~InitShowsAccessDenied(CheckAccess(conn.resp))

\* The stages of verification, each read off the request alone
DecodeFails(req) ==
  Nullish(Presented(req)) \/ Nullish(PresentedDelegation(req))

ExpiryFails(req, now) ==
  JsLess(Prop(PresentedDelegation(req), "expires"), Num(now))

AudienceFails(req) ==
  Prop(PresentedDelegation(req), "audience") # RequestDomain(req)

SignatureFails(req) ==
  \/ ~Truthy(Prop(PresentedDelegation(req), "subject"))
  \/ ~Truthy(Prop(Presented(req), "signature"))

DecodeReason(error) ==
  \/ error = "No delegation token provided"
  \/ /\ Len(error) > 27
     /\ SubSeq(error, 1, 27) = "Token verification failed: "

MalformedClaim(delegation) ==
  \/ \E k \in {"subject", "audience", "scope", "expires"} : Prop(delegation, k) = Undef
  \/ Prop(delegation, "expires").t # "number"
  \/ Prop(delegation, "scope") = Arr(<<>>)

\* C11: a presented token that lacks a required claim field, has a
\* non-numeric expires or has an empty scope is rejected by verification;
\* it is never returned as valid.
C11_MalformedNeverValid ==
  (Verified /\ ~Nullish(PresentedDelegation(conn.req))
            /\ MalformedClaim(PresentedDelegation(conn.req)))
    => ~conn.verification.valid

\* the number of days the request asks for: durationDays, 30 when the body
\* has none
RequestedDays(req) ==
  IF Prop(req.body, "durationDays") = Undef THEN Num(DefaultDurationDays)
  ELSE Prop(req.body, "durationDays")

\* C12: every token issued by POST /delegate has expires > createdAt, and
\* expires is the issuance time plus durationDays days (30 by default), for
\* every durationDays the request supplies.
C12_ExpiresAfterCreatedAt ==
  (Answered /\ conn.endpoint = "POST /delegate" /\ conn.resp.status = 200)
    => /\ JsLess(conn.resp.body.delegation.createdAt, conn.resp.body.delegation.expires)
       /\ RequestedDays(conn.req).t = "number"
       /\ conn.resp.body.delegation.expires
            = Num(conn.now + RequestedDays(conn.req).n * Day)

\* the request being answered is the one of the earlier attempt, read at the
\* same clock value
Repeated ==
  /\ Answered
  /\ previous # Null
  /\ conn.req = previous.req
  /\ conn.now = previous.now

C14_RevokedPairIsDenied ==
  (/\ Answered
   /\ conn.endpoint = "GET /check"
   /\ ~Nullish(PresentedDelegation(conn.req))
   /\ DelegationPair(PresentedDelegation(conn.req)) \in chain.revoked)
    => ~conn.verification.valid

\* a finished run of init in required mode
RequiredInitDone == page.pc = "done" /\ page.run = "init" /\ page.required

\* the run ended with access granted
Granted ==
  /\ page.access # Undef
  /\ page.access.allowed = TRUE
  /\ page.events = <<"epistery:access-granted">>

\* C15: in required mode every run of init ends in exactly one of: the
\* redirect for delegation (no valid token, no /check request sent), the
\* access-denied page (the check result is not allowed), access granted
\* (episteryAccess.allowed = true and the access-granted event); access is
\* granted only after a /check response with allowed = true.
C15_RequiredInitOutcomes ==
  RequiredInitDone
    => /\ Cardinality({o \in {"redirect", "denied", "granted"} :
                         \/ o = "redirect" /\ page.redirected
                         \/ o = "denied" /\ page.deniedPage
                         \/ o = "granted" /\ Granted}) = 1
       /\ page.redirected <=> ~IsTokenValid(page.token, page.hostname, page.now)
       /\ page.redirected => page.sent = 0
       /\ page.deniedPage => (page.sent = 1 /\ ~ResultAllowed(page.result))
       /\ ~page.redirected /\ ~ResultAllowed(page.result) => page.deniedPage
       /\ Granted => /\ page.sent = 1
                     /\ page.response.status = 200
                     /\ page.response.body.allowed = TRUE
       /\ ~Granted => page.access = Undef /\ page.events = <<>>

\* a member's page in required mode is granted access
C15_Witness ==
  /\ RequiredInitDone
  /\ Granted
  /\ page.access.mode = "required"

\* a run of lazyCheck: init in optional mode, or a call of
\* window.episteryWhiteList.check
LazyRun == page.pc # "none" /\ (page.run = "lazyCheck" \/ ~page.required)

\* C16: in optional mode init and lazyCheck never redirect to the delegation
\* page and never show the access-denied page; a run of lazyCheck dispatches
\* exactly one of the events passive-mode, access-granted, access-denied;
\* without a valid token it sends no /check request and reports mode
\* 'passive' with allowed = false.
C16_PassiveNeverBlocks ==
  LazyRun
    => /\ ~page.redirected
       /\ ~page.deniedPage
       /\ IF page.pc = "done"
          THEN /\ Len(page.events) = 1
               /\ page.events[1] \in {"epistery:passive-mode", "epistery:access-granted",
                                       "epistery:access-denied"}
          ELSE page.events = <<>>
       /\ ~IsTokenValid(page.token, page.hostname, page.now)
            => /\ page.pc = "done"
               /\ page.sent = 0
               /\ page.access.mode = "passive"
               /\ page.access.allowed = FALSE
               /\ page.events = <<"epistery:passive-mode">>

\* init in optional mode finds an expired token and reports passive mode
C16_Witness ==
  /\ LazyRun
  /\ page.run = "init"
  /\ page.pc = "done"
  /\ ~Nullish(page.token)
  /\ ~IsTokenValid(page.token, page.hostname, page.now)
  /\ page.sent = 0
  /\ page.events = <<"epistery:passive-mode">>

\* the server does not reject the presented token as expired
ServerPastExpiry == conn.verification # Invalid("Token expired")

\* isTokenValid does not reject the presented token as expired: its result
\* on the page of the token's audience, where only the expiry can fail
ClientPastExpiry ==
  IsTokenValid(Presented(conn.req),
               Prop(PresentedDelegation(conn.req), "audience").s, conn.now)

\* C17: on client and server alike a token is past the expiry check if and
\* only if now <= delegation.expires; at now = expires it is not rejected
\* as expired.
C17_ExpiryInclusive ==
  (/\ Verified
   /\ ~Nullish(PresentedDelegation(conn.req))
   /\ IsString(Prop(PresentedDelegation(conn.req), "audience")))
    => /\ ServerPastExpiry
            <=> NotLaterThan(conn.now, Prop(PresentedDelegation(conn.req), "expires"))
       /\ ClientPastExpiry
            <=> NotLaterThan(conn.now, Prop(PresentedDelegation(conn.req), "expires"))

\* an unexpired token with a string audience is presented on a request that
\* has a hostname
AudienceChecked ==
  /\ Verified
  /\ ~Nullish(PresentedDelegation(conn.req))
  /\ ~ExpiryFails(conn.req, conn.now)
  /\ IsString(Prop(PresentedDelegation(conn.req), "audience"))
  /\ IsString(RequestDomain(conn.req))

\* the server's audience check lets the presented token pass
ServerPastAudience == conn.verification # Invalid("Token audience mismatch")

\* isTokenValid lets the presented token pass on a page of the request's
\* hostname
ClientPastAudience ==
  IsTokenValid(Presented(conn.req), RequestDomain(conn.req).s, conn.now)

\* C18 as stated: the audience check is exact but case-insensitive, without
\* subdomain wildcarding: an unexpired token passes it iff its audience
\* equals the request hostname up to letter case.
C18_AudienceIgnoresCase ==
  AudienceChecked
    => /\ ServerPastAudience
            <=> (ToLowerCase(Prop(PresentedDelegation(conn.req), "audience").s)
                   = ToLowerCase(RequestDomain(conn.req).s))
       /\ ClientPastAudience
            <=> (ToLowerCase(Prop(PresentedDelegation(conn.req), "audience").s)
                   = ToLowerCase(RequestDomain(conn.req).s))

\* C18 as amended: the audience check is exact and case-sensitive, without
\* subdomain wildcarding: an unexpired token passes it, on server and client,
\* iff its audience is identical to the request hostname; an audience that
\* differs in letter case only, or is a parent or child domain, fails it.
C18_AudienceExact ==
  AudienceChecked
    => /\ ServerPastAudience
            <=> (Prop(PresentedDelegation(conn.req), "audience") = RequestDomain(conn.req))
       /\ ClientPastAudience
            <=> (Prop(PresentedDelegation(conn.req), "audience") = RequestDomain(conn.req))

\* an unexpired token for the parent domain of the request's hostname fails
\* the audience check of server and client
C18_Witness ==
  /\ AudienceChecked
  /\ Prop(PresentedDelegation(conn.req), "audience") = Str("example.com")
  /\ RequestDomain(conn.req) = Str("shop.example.com")
  /\ ~ServerPastAudience
  /\ ~ClientPastAudience

\* the request carries no token, a header that is not JSON, JSON that is
\* null or no object, a token without a delegation object, or a delegation
\* that lacks one of subject, audience, scope, expires
MalformedInput(req) ==
  \/ DecodeFails(req)
  \/ \E k \in {"subject", "audience", "scope", "expires"} :
       Prop(PresentedDelegation(req), k) = Undef

\* C19: verifyDelegationToken never throws: for a request with no token, a
\* header that is not JSON, JSON that is null or not an object, a token with
\* no delegation object or a delegation with missing fields it returns
\* {valid: false, error}, and the endpoint answers 401, not 500.
C19_MalformedInputIs401 ==
  (Verified /\ MalformedInput(conn.req))
    => /\ DOMAIN conn.verification = {"valid", "error"}
       /\ ~conn.verification.valid
       /\ conn.resp.status = 401

\* C20: the membership service is consulted only after verification has
\* succeeded (and, on /list, /add and /remove, after the scope check has
\* passed): a request answered 401 or 403, and every request whose
\* verification result is invalid, causes no membership call.
C20_MembershipAfterVerification ==
  Verified
    => /\ conn.calls # <<>>
            => /\ conn.verification.valid
               /\ conn.endpoint \in AdminEndpoints
                    => ScopeIncludesAdmin(conn.verification.scope) = "yes"
       /\ ~conn.verification.valid => conn.calls = <<>>
       /\ conn.resp.status \in {401, 403} => conn.calls = <<>>

\* a valid token without the admin scope is answered 403 on an admin
\* endpoint and the membership service is not called
C20_Witness ==
  /\ Verified
  /\ conn.endpoint \in AdminEndpoints
  /\ conn.verification.valid
  /\ conn.epi
  /\ conn.serviceOk
  /\ conn.resp.status = 403
  /\ conn.calls = <<>>

\* requests in flight that present the same token on the same hostname at
\* the same clock reading have the same verification result
FlightsAgree ==
  \A i, j \in 1..MaxFlights :
    (/\ flights[i] # NoFlight
     /\ flights[j] # NoFlight
     /\ flights[i].req = flights[j].req
     /\ flights[i].now = flights[j].now)
      => flights[i].verification = flights[j].verification

StatusAnswered == Answered /\ conn.endpoint = "GET /status"

\* C22: GET /status needs no token; a 200 answer carries whitelistCount equal
\* to the number of addresses the membership service holds; when the
\* membership service fails or is not available the answer is 500, not 200
\* with a count; WhiteListAgent and createWhiteListAgent answer alike.
C22_StatusCountsOrFails ==
  StatusAnswered =>
    /\ conn.resp.status \in {200, 500}
    /\ conn.resp.status = 200
         => conn.resp.body.whitelistCount = Cardinality(conn.before)
    /\ (~conn.epi \/ ~conn.serviceOk) => conn.resp.status = 500
    /\ AgentStatus(conn.epi, conn.before, conn.serviceOk).resp.status
         = RouterStatus(conn.before, conn.serviceOk).resp.status

\* the part of C22 the code keeps: no token is needed, a 200 answer of
\* createWhiteListAgent, and of WhiteListAgent when the service answered,
\* carries the number of addresses, and createWhiteListAgent answers 500
\* when the service fails
C22_StatusWhenServiceAnswers ==
  StatusAnswered =>
    /\ conn.resp.status \in {200, 500}
    /\ (conn.epi /\ conn.serviceOk)
         => /\ conn.resp.status = 200
            /\ conn.resp.body.whitelistCount = Cardinality(conn.before)
    /\ (conn.impl = CreateWhiteListAgent /\ ~conn.serviceOk) => conn.resp.status = 500

\* the response of the most recent /check request that completed is OK
ResponseOk == page.response # Undef /\ page.response.status \in 200..299

\* C23: in every state of the client window.episteryAccess.allowed is true
\* only if the most recent /check request completed with an OK (2xx)
\* response whose body had allowed = true; a network error or a response
\* that is not 2xx makes checkAccess return allowed = false and grants no
\* access.
C23_FailClosed ==
  page # NoPage
    => /\ (page.access # Undef /\ page.access.allowed = TRUE)
            => (ResponseOk /\ page.response.body.allowed = TRUE)
       /\ (page.result # Undef /\ ~ResponseOk)
            => /\ page.result.allowed = FALSE
               /\ "error" \in DOMAIN page.result
               /\ page.events # <<"epistery:access-granted">>

\* the error a response body carries
ErrorIs(body, error) == "error" \in DOMAIN body /\ body.error = error

\* init has run in required mode on a page of the publisher's site with a
\* token that isTokenValid accepts, and the server has answered its /check
PublisherRunAnswered ==
  /\ page # NoPage
  /\ page.pc = "done"
  /\ page.run = "init"
  /\ page.required
  /\ page.hostname = PublisherHost
  /\ IsTokenValid(page.token, page.hostname, page.now)
  /\ page.response # Undef
  /\ page.response.status # FetchFailure.status

\* C24: client and server agree on the audience: on a publisher page at
\* hostname H a token that isTokenValid accepts (unexpired, audience H) and
\* that checkAccess sends to the /check endpoint of the epistery subdomain
\* passes the server's audience check, so that in required mode a
\* whitelisted visitor with such a token reaches access granted and not the
\* access-denied page.
C24_ClientAndServerAgreeOnAudience ==
  PublisherRunAnswered
    => /\ ~ErrorIs(page.response.body, "Token audience mismatch")
       /\ (/\ Truthy(Prop(page.token, "signature"))
           /\ IsWhitelisted(whitelist, Prop(Prop(page.token, "delegation"), "subject"))
           /\ page.response.status # 500)
            => (Granted /\ ~page.deniedPage)

\* the request without its cookie, and without its header
WithoutCookie(req) == [req EXCEPT !.cookie = Undef]

WithoutHeader(req) == [req EXCEPT !.header = Undef]

\* C25 as stated: when the X-Epistery-Delegation header is present it alone
\* is verified and the cookie is ignored; the cookie is used only when the
\* header is absent; when both are absent the result is invalid with
\* 'No delegation token provided'.
C25_HeaderAloneWhenPresent ==
  Verified
    => /\ conn.req.header # Undef
            => conn.verification = VerifyDelegationToken(WithoutCookie(conn.req), conn.now)
       /\ (conn.req.header = Undef /\ conn.req.cookie = Undef)
            => conn.verification = Invalid("No delegation token provided")

\* C25: when the X-Epistery-Delegation header has a non-empty value it alone
\* is verified and the cookie is ignored, so an invalid header with a valid
\* cookie is denied; the cookie is used when the header is absent or empty;
\* when neither carries a value the result is invalid with
\* 'No delegation token provided'.
C25_NonEmptyHeaderAlone ==
  Verified
    => /\ Truthy(conn.req.header)
            => conn.verification = VerifyDelegationToken(WithoutCookie(conn.req), conn.now)
       /\ ~Truthy(conn.req.header)
            => conn.verification = VerifyDelegationToken(WithoutHeader(conn.req), conn.now)
       /\ (~Truthy(conn.req.header) /\ ~Truthy(conn.req.cookie))
            => conn.verification = Invalid("No delegation token provided")
       /\ (/\ Truthy(conn.req.header)
           /\ ~VerifyDelegationToken(WithoutCookie(conn.req), conn.now).valid)
            => conn.resp.status = 401

\* a request with an expired token in the header and a valid one in the
\* cookie is denied
C25_Witness ==
  /\ Verified
  /\ Truthy(conn.req.header)
  /\ Truthy(conn.req.cookie)
  /\ VerifyDelegationToken(WithoutHeader(conn.req), conn.now).valid
  /\ conn.verification = Invalid("Token expired")
  /\ conn.resp.status = 401

ChangeAnswered == Answered /\ conn.endpoint \in {"POST /add", "POST /remove"}

\* the status the first failing check answers, 200 if none fails; admin says
\* whether the token passes the scope check
FirstFailure(admin) ==
  IF ~conn.verification.valid THEN 401
  ELSE IF ~admin THEN 403
  ELSE IF InvalidAddress(Prop(conn.req.body, "address")) THEN 400
  ELSE IF ~conn.epi \/ ~conn.serviceOk THEN 500
  ELSE 200

\* C26: on POST /add and POST /remove the checks run in the order token
\* verification (401), admin scope (403), address format (400), membership
\* service initialised (500), and the response is that of the first check
\* that fails: an invalid token is answered 401 whatever the body, a malformed
\* address is answered 400 only for a valid admin token, and
\* 'Epistery not initialized' is answered only when the three earlier
\* checks passed.
C26_FirstFailingCheckAnswers ==
  ChangeAnswered
    => LET admin == /\ conn.verification.valid
                    /\ HoldsCapability(conn.verification.scope, AdminScope)
       IN  /\ conn.resp.status = FirstFailure(admin)
           /\ conn.resp.status = 400 => admin
           /\ ErrorIs(conn.resp.body, NotInitialized)
                => (admin /\ ~InvalidAddress(Prop(conn.req.body, "address")))

\* the order of the checks as the code makes them, for tokens whose scope
\* is absent or an array
C26_FirstFailingCheckForArrayScopes ==
  (ChangeAnswered
     /\ (conn.verification.valid
           => (Nullish(conn.verification.scope) \/ conn.verification.scope.t = "array")))
    => LET admin == /\ conn.verification.valid
                    /\ ~Nullish(conn.verification.scope)
                    /\ HoldsCapability(conn.verification.scope, AdminScope)
       IN  /\ conn.resp.status = FirstFailure(admin)
           /\ conn.resp.status = 400 => admin
           /\ ErrorIs(conn.resp.body, NotInitialized)
                => (admin /\ ~InvalidAddress(Prop(conn.req.body, "address")))

====
